---- MODULE Spec2Model ----
\* Model of components/tidb_query/src/rpn_expr/impl_time.rs: the temporal
\* scalar functions of the RPN expression evaluator, evaluated one call at a
\* time against one EvalContext.
EXTENDS Integers, Sequences, FiniteSets, TLC

VARIABLES ctx, last

vars == <<ctx, last>>

\* ------------------------------------------------------------------ bounds
\* Calls are enabled while the context holds fewer warnings than this.
MaxWarnings == 2

\* ------------------------------------------------------- Option and Result
\* Option<T>: None is the empty tuple, Some(v) the one-element tuple.
None == <<>>

Some(v) == <<v>>

\* Result<T>: Ok carries the value, Err carries the error.
Ok(v) == [ok |-> TRUE, val |-> v]

Err(e) == [ok |-> FALSE, err |-> e]

\* An Int result, and a Bytes result made of a String (a sequence of text
\* tokens).
IntVal(n) == [int |-> n]

into_bytes(str) == [bytes |-> str]

\* What one call of a function leaves behind: its return value, the context
\* after it, and whether handle_invalid_time_error was called.
Ret(r, c, p) == [res |-> r, ctx |-> c, policy |-> p]

\* ------------------------------------------------------ Temporal Value Model
\* A DateTime is its calendar fields and its time of day, down to the
\* microsecond.
DateTime(y, m, d, h, mi, sec, us) ==
    [year |-> y, month |-> m, day |-> d,
     hour |-> h, minute |-> mi, second |-> sec, micro |-> us]

\* A DateTime at midnight.
Date(y, m, d) == DateTime(y, m, d, 0, 0, 0, 0)

ZeroDate == Date(0, 0, 0)

IsLeapYear(y) == (y % 4 = 0) /\ ((y % 100 # 0) \/ (y % 400 = 0))

DaysInMonth(y, m) ==
    IF m = 2 THEN (IF IsLeapYear(y) THEN 29 ELSE 28)
    ELSE IF m \in {4, 6, 9, 11} THEN 30 ELSE 31

\* Time::is_zero: all calendar fields are zero.
is_zero(t) == t.year = 0 /\ t.month = 0 /\ t.day = 0

\* Time::invalid_zero: zero, partially zero, or not a real calendar date.
invalid_zero(t) ==
    \/ t.month = 0
    \/ t.day = 0
    \/ t.month > 12
    \/ t.day > DaysInMonth(t.year, t.month)

RECURSIVE DaysBeforeMonth(_, _)
DaysBeforeMonth(y, m) ==
    IF m <= 1 THEN 0 ELSE DaysBeforeMonth(y, m - 1) + DaysInMonth(y, m - 1)

\* Time::days: the 1-based ordinal day within the year.
days(t) == DaysBeforeMonth(t.year, t.month) + t.day

\* Days from 0001-01-01 (day 1) in the proleptic Gregorian calendar.
DaysFromCE(t) ==
    LET p == t.year - 1
    IN 365 * p + (p \div 4) - (p \div 100) + (p \div 400) + days(t)

\* Time::weekday().num_days_from_monday(): Monday = 0 ... Sunday = 6.
weekday_from_monday(t) == (DaysFromCE(t) - 1) % 7

MonthNames ==
    <<"January", "February", "March", "April", "May", "June", "July",
      "August", "September", "October", "November", "December">>

MonthNamesAbbr ==
    <<"Jan", "Feb", "Mar", "Apr", "May", "Jun", "Jul", "Aug", "Sep", "Oct",
      "Nov", "Dec">>

\* Weekday names, Monday first.
WeekdayNames ==
    <<"Monday", "Tuesday", "Wednesday", "Thursday", "Friday", "Saturday",
      "Sunday">>

WeekdayNamesAbbr == <<"Mon", "Tue", "Wed", "Thu", "Fri", "Sat", "Sun">>

\* The English ordinal suffix of a day of the month.
abbr_day_of_month(t) ==
    IF t.day \in {1, 21, 31} THEN "st"
    ELSE IF t.day \in {2, 22} THEN "nd"
    ELSE IF t.day \in {3, 23} THEN "rd"
    ELSE "th"

\* Days in a year, also for the year before year 0.
calc_days_in_year(y) == IF IsLeapYear(y) THEN 366 ELSE 365

\* The one week computation every week directive uses: weeks start on
\* Monday, week 1 is the first week with four or more days in the year, and
\* a day in a week that belongs to the neighbouring year takes that year.
\* The result is <<year, week>>; the year before year 0 is -1.
calc_year_week(t) ==
    LET daynr    == DaysFromCE(t)
        first0   == DaysFromCE(Date(t.year, 1, 1))
        weekday0 == weekday_from_monday(Date(t.year, 1, 1))
        back     == t.month = 1 /\ t.day <= 7 - weekday0
        yr       == IF back THEN t.year - 1 ELSE t.year
        first    == IF back THEN first0 - calc_days_in_year(yr) ELSE first0
        weekday  == IF back
                    THEN (weekday0 + 53 * 7 - calc_days_in_year(yr)) % 7
                    ELSE weekday0
        d        == IF weekday >= 4
                    THEN daynr - (first + 7 - weekday)
                    ELSE daynr - (first - weekday)
    IN IF d >= 52 * 7 /\ (weekday + calc_days_in_year(yr)) % 7 < 4
       THEN <<yr + 1, 1>>
       ELSE <<yr, (d \div 7) + 1>>

\* DateTimeExtension::month_name: None when the month is 0.
time_month_name(t) ==
    IF t.month \in 1..12 THEN Some(MonthNames[t.month]) ELSE None

\* `.to_string()` of a name: the String holding it as its one token.
to_string(name) == <<name>>

\* Option::map(|s| s.to_string().into_bytes()).
NameBytes(o) == IF o = None THEN None ELSE Some(into_bytes(to_string(o[1])))

\* Error::incorrect_datetime_value(t): code ERR_TRUNCATE_WRONG_VALUE, message
\* derived from the offending value.
incorrect_datetime_value(t) ==
    [code |-> "ERR_TRUNCATE_WRONG_VALUE", val |-> t]

\* Error::Encoding(utf8 error).
EncodingError == [code |-> "Encoding"]

\* ------------------------------------------------ date_format mini-language
Digits == <<"0", "1", "2", "3", "4", "5", "6", "7", "8", "9">>

\* The decimal digits of n, without padding.
RECURSIVE Dec(_)
Dec(n) == IF n < 10 THEN <<Digits[n + 1]>> ELSE Dec(n \div 10) \o <<Digits[(n % 10) + 1]>>

\* The decimal digits of n, zero-padded on the left to width w.
RECURSIVE Pad(_, _)
Pad(n, w) == IF Len(Dec(n)) >= w THEN Dec(n) ELSE <<"0">> \o Pad(n, w - 1)

\* u32::max_value() in decimal: what a week-year before year 0 is written as.
U32MaxDigits == <<"4", "2", "9", "4", "9", "6", "7", "2", "9", "5">>

\* The hour on the 12-hour clock: 12 at midnight and at noon.
Hour12(t) == IF t.hour % 12 = 0 THEN 12 ELSE t.hour % 12

\* "AM" in the first half of the day, "PM" in the second.
AmPm(t) == IF (t.hour \div 12) % 2 = 0 THEN "AM" ELSE "PM"

\* The week of the year, two digits.
WeekDigits(t) == Pad(calc_year_week(t)[2], 2)

\* The year the week belongs to, four digits; before year 0 the value is
\* written as u32::max_value().
WeekYearDigits(t) ==
    LET y == calc_year_week(t)[1]
    IN IF y < 0 THEN U32MaxDigits ELSE Pad(y, 4)

\* One directive: the character b that follows a '%'. A letter with no
\* defined meaning is copied out as it is.
write_date_format_segment(t, b) ==
    CASE b = "b" -> IF t.month \in 1..12 THEN <<MonthNamesAbbr[t.month]>> ELSE <<>>
      [] b = "M" -> time_month_name(t)
      [] b = "m" -> Pad(t.month, 2)
      [] b = "c" -> Dec(t.month)
      [] b = "D" -> Dec(t.day) \o <<abbr_day_of_month(t)>>
      [] b = "d" -> Pad(t.day, 2)
      [] b = "e" -> Dec(t.day)
      [] b = "j" -> Pad(days(t), 3)
      [] b = "H" -> Pad(t.hour, 2)
      [] b = "k" -> Dec(t.hour)
      [] b \in {"h", "I"} -> Pad(Hour12(t), 2)
      [] b = "l" -> Dec(Hour12(t))
      [] b = "i" -> Pad(t.minute, 2)
      [] b = "p" -> <<AmPm(t)>>
      [] b = "r" -> Pad(Hour12(t), 2) \o <<":">> \o Pad(t.minute, 2) \o <<":">>
                    \o Pad(t.second, 2) \o <<" ", AmPm(t)>>
      [] b = "T" -> Pad(t.hour, 2) \o <<":">> \o Pad(t.minute, 2) \o <<":">>
                    \o Pad(t.second, 2)
      [] b \in {"S", "s"} -> Pad(t.second, 2)
      [] b = "f" -> Pad(t.micro, 6)
      [] b \in {"U", "u", "V", "v"} -> WeekDigits(t)
      [] b = "a" -> <<WeekdayNamesAbbr[weekday_from_monday(t) + 1]>>
      [] b = "W" -> <<WeekdayNames[weekday_from_monday(t) + 1]>>
      [] b = "w" -> Dec((weekday_from_monday(t) + 1) % 7)
      [] b \in {"X", "x"} -> WeekYearDigits(t)
      [] b = "Y" -> Pad(t.year, 4)
      [] b = "y" -> Pad(t.year % 100, 2)
      [] OTHER -> <<b>>

\* The layout scanned left to right from position i; a lone '%' at the end
\* is copied out.
RECURSIVE FormatFrom(_, _, _)
FormatFrom(t, chars, i) ==
    IF i > Len(chars) THEN <<>>
    ELSE IF chars[i] = "%"
         THEN IF i = Len(chars) THEN <<"%">>
              ELSE write_date_format_segment(t, chars[i + 1]) \o FormatFrom(t, chars, i + 2)
         ELSE <<chars[i]>> \o FormatFrom(t, chars, i + 1)

\* DateTimeExtension::date_format(layout) -> Result<String>.
time_date_format(t, chars) == Ok(FormatFrom(t, chars, 1))

\* std::str::from_utf8 on the layout bytes: the text, or an encoding error.
from_utf8(layout) ==
    IF layout.utf8 THEN Ok(layout.chars) ELSE Err(EncodingError)

\* ------------------------------------------------------------- day ordinals
\* An Int (i64) x is kept as three limbs, x = hi * 2^32 + mid * 2^16 + lo with
\* mid, lo in 0..65535, so that values beyond 32 bits stay representable.
I64(h, m, l) == [hi |-> h, mid |-> m, lo |-> l]

Pow16 == 65536

\* `daynr as u32`: the low 32 bits, as the two low limbs.
AsU32(x) == [mid |-> x.mid, lo |-> x.lo]

\* First ordinal past 9999-12-31.
MaxDayNr == 3652425

\* First ordinal of year 1.
MinDayNr == 366

DaysInYear(y) == IF IsLeapYear(y) THEN 366 ELSE 365

\* Step the year forward until the remaining day count falls inside it.
RECURSIVE YearOfDay(_, _)
YearOfDay(y, doy) ==
    IF doy > DaysInYear(y) THEN YearOfDay(y + 1, doy - DaysInYear(y))
    ELSE [year |-> y, doy |-> doy]

\* Step the month forward until the remaining day count falls inside it.
RECURSIVE MonthOfDay(_, _, _)
MonthOfDay(y, m, doy) ==
    IF doy > DaysInMonth(y, m) THEN MonthOfDay(y, m + 1, doy - DaysInMonth(y, m))
    ELSE Date(y, m, doy)

\* The calendar date of day ordinal n, MinDayNr <= n < MaxDayNr.
DateOfDayNr(n) ==
    LET y0 == (n * 100) \div 36525
        temp == ((((y0 - 1) \div 100) + 1) * 3) \div 4
        doy0 == n - y0 * 365 - ((y0 - 1) \div 4) + temp
        yd == YearOfDay(y0, doy0)
    IN MonthOfDay(yd.year, 1, yd.doy)

\* Time::from_days(ctx, daynr: u32): total; an ordinal before year 1 or past
\* year 9999 gives the zero date. (A u32 whose upper limb exceeds that of
\* MaxDayNr is past it whatever its lower limb.)
time_from_days(u) ==
    IF u.mid > MaxDayNr \div Pow16 THEN Ok(ZeroDate)
    ELSE LET n == u.mid * Pow16 + u.lo
         IN IF n < MinDayNr \/ n >= MaxDayNr THEN Ok(ZeroDate)
            ELSE Ok(DateOfDayNr(n))

\* ------------------------------------------- Evaluation Context & Error Policy
SqlModes == {"NO_ZERO_DATE", "STRICT_ALL_TABLES"}

Flags == {"IN_UPDATE_OR_DELETE_STMT"}

\* EvalConfig: the SQL mode and the statement flags.
EvalConfig(mode, flag) == [sql_mode |-> mode, flag |-> flag]

\* EvalContext::new(cfg): the configuration and an empty warning sequence.
EvalContext(cfg) == [cfg |-> cfg, warnings |-> <<>>]

\* The SQL mode demands strict handling for the current statement kind.
IsStrict(c) ==
    /\ "STRICT_ALL_TABLES" \in c.cfg.sql_mode
    /\ "IN_UPDATE_OR_DELETE_STMT" \in c.cfg.flag

\* EvalContext::handle_invalid_time_error(err) -> Result<()>: a hard failure
\* carrying err in strict handling, else the warning is recorded.
handle_invalid_time_error(c, err) ==
    IF IsStrict(c)
    THEN [res |-> Err(err), ctx |-> c]
    ELSE [res |-> Ok(<<>>), ctx |-> [c EXCEPT !.warnings = Append(@, err)]]

\* `ctx.handle_invalid_time_error(err).map(|_| Ok(None))?`: the policy's
\* failure leaves the function through `?`, its success becomes Ok(None).
MapOkNone(h) ==
    IF h.res.ok THEN Ret(Ok(None), h.ctx, TRUE) ELSE Ret(h.res, h.ctx, TRUE)

\* ------------------------------------------------------ Scalar Function Set
\* Each function gives Ret(result, context after the call, policy invoked).

\* date_format with the layout's null check made after the date's validity
\* check instead of before it.
date_format_late_null(c, t, layout) ==
    IF t = None THEN Ret(Ok(None), c, FALSE)
    ELSE IF invalid_zero(t[1])
         THEN MapOkNone(handle_invalid_time_error(c, incorrect_datetime_value(t[1])))
         ELSE IF layout = None THEN Ret(Ok(None), c, FALSE)
              ELSE LET s == from_utf8(layout[1])
                   IN IF ~s.ok THEN Ret(Err(s.err), c, FALSE)
                      ELSE Ret(Ok(Some(into_bytes(time_date_format(t[1], s.val).val))), c, FALSE)

\* date_format with the decoding failure handed to the Error Policy instead
\* of leaving through `?`.
date_format_decode_downgraded(c, t, layout) ==
    IF t = None \/ layout = None THEN Ret(Ok(None), c, FALSE)
    ELSE IF invalid_zero(t[1])
         THEN MapOkNone(handle_invalid_time_error(c, incorrect_datetime_value(t[1])))
         ELSE LET s == from_utf8(layout[1])
              IN IF ~s.ok THEN MapOkNone(handle_invalid_time_error(c, s.err))
                 ELSE Ret(Ok(Some(into_bytes(time_date_format(t[1], s.val).val))), c, FALSE)

date_format(c, t, layout) ==
    IF t = None \/ layout = None THEN Ret(Ok(None), c, FALSE)
    ELSE LET tv == t[1]
             lv == layout[1]
         IN IF invalid_zero(tv)
            THEN MapOkNone(handle_invalid_time_error(c, incorrect_datetime_value(tv)))
            ELSE LET s == from_utf8(lv)
                 IN IF ~s.ok THEN Ret(Err(s.err), c, FALSE)
                    ELSE LET f == time_date_format(tv, s.val)
                         IN IF ~f.ok
                            THEN MapOkNone(handle_invalid_time_error(c, f.err))
                            ELSE Ret(Ok(Some(into_bytes(f.val))), c, FALSE)

\* week_day testing is_zero where the code tests invalid_zero.
week_day_only_zero(c, t) ==
    IF t = None THEN Ret(Ok(None), c, FALSE)
    ELSE IF is_zero(t[1])
         THEN MapOkNone(handle_invalid_time_error(c, incorrect_datetime_value(t[1])))
         ELSE Ret(Ok(Some(IntVal(weekday_from_monday(t[1])))), c, FALSE)

\* week_day with the `return` of the invalid-value branch lost: the policy
\* records its warning and the weekday is computed and returned all the same.
week_day_warn_and_value(c, t) ==
    IF t = None THEN Ret(Ok(None), c, FALSE)
    ELSE IF invalid_zero(t[1])
         THEN LET h == handle_invalid_time_error(c, incorrect_datetime_value(t[1]))
              IN IF h.res.ok
                 THEN Ret(Ok(Some(IntVal(weekday_from_monday(t[1])))), h.ctx, TRUE)
                 ELSE Ret(h.res, h.ctx, TRUE)
         ELSE Ret(Ok(Some(IntVal(weekday_from_monday(t[1])))), c, FALSE)

\* week_day deciding error-versus-warning itself from NO_ZERO_DATE instead of
\* leaving the decision to the Error Policy.
week_day_own_decision(c, t) ==
    IF t = None THEN Ret(Ok(None), c, FALSE)
    ELSE IF invalid_zero(t[1])
         THEN IF "NO_ZERO_DATE" \in c.cfg.sql_mode
              THEN Ret(Err(incorrect_datetime_value(t[1])), c, FALSE)
              ELSE MapOkNone(handle_invalid_time_error(c, incorrect_datetime_value(t[1])))
         ELSE Ret(Ok(Some(IntVal(weekday_from_monday(t[1])))), c, FALSE)

week_day(c, t) ==
    IF t = None THEN Ret(Ok(None), c, FALSE)
    ELSE IF invalid_zero(t[1])
         THEN MapOkNone(handle_invalid_time_error(c, incorrect_datetime_value(t[1])))
         ELSE Ret(Ok(Some(IntVal(weekday_from_monday(t[1])))), c, FALSE)

\* day_of_year consulting NO_ZERO_DATE before the Error Policy, as year does.
day_of_year_mode_gated(c, t) ==
    IF t = None THEN Ret(Ok(None), c, FALSE)
    ELSE IF invalid_zero(t[1]) /\ "NO_ZERO_DATE" \in c.cfg.sql_mode
         THEN MapOkNone(handle_invalid_time_error(c, incorrect_datetime_value(t[1])))
         ELSE Ret(Ok(Some(IntVal(days(t[1])))), c, FALSE)

day_of_year(c, t) ==
    IF t = None THEN Ret(Ok(None), c, FALSE)
    ELSE IF invalid_zero(t[1])
         THEN MapOkNone(handle_invalid_time_error(c, incorrect_datetime_value(t[1])))
         ELSE Ret(Ok(Some(IntVal(days(t[1])))), c, FALSE)

from_days(c, arg) ==
    IF arg = None THEN Ret(Ok(None), c, FALSE)
    ELSE LET time == time_from_days(AsU32(arg[1]))
         IN IF ~time.ok THEN Ret(time, c, FALSE)
            ELSE Ret(Ok(Some(time.val)), c, FALSE)

\* month giving "unknown" for a month of 0.
month_zero_unknown(t) ==
    IF t = None \/ t[1].month = 0 THEN Ok(None) ELSE Ok(Some(IntVal(t[1].month)))

month(t) == IF t = None THEN Ok(None) ELSE Ok(Some(IntVal(t[1].month)))

hour(t) == IF t = None THEN Ok(None) ELSE Ok(Some(IntVal(t[1].hours)))

minute(t) == IF t = None THEN Ok(None) ELSE Ok(Some(IntVal(t[1].minutes)))

second(t) == IF t = None THEN Ok(None) ELSE Ok(Some(IntVal(t[1].secs)))

micro_second(t) == IF t = None THEN Ok(None) ELSE Ok(Some(IntVal(t[1].micros)))

\* year testing invalid_zero where the code tests is_zero.
year_invalid_zero(c, t) ==
    IF t = None THEN Ret(Ok(None), c, FALSE)
    ELSE IF invalid_zero(t[1])
         THEN IF "NO_ZERO_DATE" \in c.cfg.sql_mode
              THEN MapOkNone(handle_invalid_time_error(c, incorrect_datetime_value(t[1])))
              ELSE Ret(Ok(Some(IntVal(0))), c, FALSE)
         ELSE Ret(Ok(Some(IntVal(t[1].year))), c, FALSE)

year(c, t) ==
    IF t = None THEN Ret(Ok(None), c, FALSE)
    ELSE IF is_zero(t[1])
         THEN IF "NO_ZERO_DATE" \in c.cfg.sql_mode
              THEN MapOkNone(handle_invalid_time_error(c, incorrect_datetime_value(t[1])))
              ELSE Ret(Ok(Some(IntVal(0))), c, FALSE)
         ELSE Ret(Ok(Some(IntVal(t[1].year))), c, FALSE)

\* day_of_month falling through to the 0 fallback after the policy recorded
\* its warning.
day_of_month_zero_fallback(c, t) ==
    IF t = None THEN Ret(Ok(None), c, FALSE)
    ELSE IF is_zero(t[1])
         THEN IF "NO_ZERO_DATE" \in c.cfg.sql_mode
              THEN LET h == handle_invalid_time_error(c, incorrect_datetime_value(t[1]))
                   IN IF h.res.ok THEN Ret(Ok(Some(IntVal(0))), h.ctx, TRUE)
                      ELSE Ret(h.res, h.ctx, TRUE)
              ELSE Ret(Ok(Some(IntVal(0))), c, FALSE)
         ELSE Ret(Ok(Some(IntVal(t[1].day))), c, FALSE)

day_of_month(c, t) ==
    IF t = None THEN Ret(Ok(None), c, FALSE)
    ELSE IF is_zero(t[1])
         THEN IF "NO_ZERO_DATE" \in c.cfg.sql_mode
              THEN MapOkNone(handle_invalid_time_error(c, incorrect_datetime_value(t[1])))
              ELSE Ret(Ok(Some(IntVal(0))), c, FALSE)
         ELSE Ret(Ok(Some(IntVal(t[1].day))), c, FALSE)

\* month_name dropping the policy's failure instead of propagating it.
month_name_swallow(c, t) ==
    IF t = None THEN Ret(Ok(None), c, FALSE)
    ELSE IF is_zero(t[1]) /\ "NO_ZERO_DATE" \in c.cfg.sql_mode
         THEN Ret(Ok(None),
                  handle_invalid_time_error(c, incorrect_datetime_value(t[1])).ctx, TRUE)
         ELSE Ret(Ok(NameBytes(time_month_name(t[1]))), c, FALSE)

\* month_name testing invalid_zero where the code tests is_zero.
month_name_invalid_zero(c, t) ==
    IF t = None THEN Ret(Ok(None), c, FALSE)
    ELSE IF invalid_zero(t[1]) /\ "NO_ZERO_DATE" \in c.cfg.sql_mode
         THEN MapOkNone(handle_invalid_time_error(c, incorrect_datetime_value(t[1])))
         ELSE Ret(Ok(NameBytes(time_month_name(t[1]))), c, FALSE)

month_name(c, t) ==
    IF t = None THEN Ret(Ok(None), c, FALSE)
    ELSE IF is_zero(t[1]) /\ "NO_ZERO_DATE" \in c.cfg.sql_mode
         THEN MapOkNone(handle_invalid_time_error(c, incorrect_datetime_value(t[1])))
         ELSE Ret(Ok(NameBytes(time_month_name(t[1]))), c, FALSE)

\* ------------------------------------------------------------------- inputs
InvalidDates ==
    {ZeroDate, Date(2018, 12, 0), Date(2019, 12, 0), Date(2018, 0, 3),
     Date(2019, 0, 1), Date(2019, 2, 30)}

ValidDates ==
    {Date(2018, 12, 3), Date(2018, 12, 6), Date(2018, 12, 9),
     Date(2016, 12, 31), Date(2018, 12, 31), Date(2019, 1, 1),
     Date(2012, 12, 21), Date(2012, 2, 29),
     DateTime(2010, 1, 7, 23, 12, 34, 123450),
     DateTime(2012, 12, 21, 23, 12, 34, 123456),
     DateTime(0, 1, 1, 0, 0, 0, 123456)}

Dates == InvalidDates \cup ValidDates

OptDates == {None} \cup {Some(t) : t \in Dates}

\* A layout is its bytes: whether they decode as UTF-8, and the characters.
Layout(u, chars) == [utf8 |-> u, chars |-> chars]

\* A layout of calendar, clock and week directives around literal text.
ClockAndWeek ==
    <<
      "%", "D", " ", "%", "b", " ", "%", "h", ":", "%", "i", ":", "%", "s",
      ".", "%", "f", " ", "%", "p", " ", "%", "a", " ", "%", "v", " ", "%",
      "x">>

Layouts ==
    {Layout(TRUE, <<"%", "Y", "-", "%", "m", "-", "%", "d">>),
     Layout(TRUE, <<"%", "j", " ", "%", "M", " ", "%", "z", "%">>),
     Layout(TRUE, ClockAndWeek),
     Layout(FALSE, <<>>)}

OptLayouts == {None} \cup {Some(l) : l \in Layouts}

Duration(h, m, s, us, neg) ==
    [hours |-> h, minutes |-> m, secs |-> s, micros |-> us, neg |-> neg]

Durations ==
    {Duration(0, 0, 0, 0, FALSE), Duration(755, 30, 45, 0, FALSE),
     Duration(11, 30, 45, 123345, FALSE), Duration(11, 30, 46, 0, TRUE)}

OptDurations == {None} \cup {Some(d) : d \in Durations}

\* The i64 with upper half h and lower half n, 0 <= n < 2^31.
I64Of(h, n) == I64(h, n \div Pow16, n % Pow16)

Ints ==
    {I64Of(0, 0), I64Of(0, 140), I64Of(0, 365), I64Of(0, 366),
     I64Of(0, 734927), I64Of(0, 735000), I64Of(0, 3652424),
     I64Of(0, 3652425), I64(0, 65535, 65535),
     I64(-1, 65535, 65396), I64Of(1, 735000), I64Of(-1, 735000)}

OptInts == {None} \cup {Some(x) : x \in Ints}

Configs == {EvalConfig(m, f) : m \in SUBSET SqlModes, f \in SUBSET Flags}

\* ------------------------------------------------------------ state machine
NoCall(c) == [fn |-> "none", args |-> <<>>, res |-> Ok(None), policy |-> FALSE, pre |-> c]

Init ==
    /\ ctx \in {EvalContext(cfg) : cfg \in Configs}
    /\ last = NoCall(ctx)

\* One call of a context-aware function on the shared context.
Call(fn, args, r) ==
    /\ Len(ctx.warnings) < MaxWarnings
    /\ ctx' = r.ctx
    /\ last' = [fn |-> fn, args |-> args, res |-> r.res, policy |-> r.policy, pre |-> ctx]

\* One call of a context-free function: it is not handed the context.
PureCall(fn, args, res) ==
    /\ Len(ctx.warnings) < MaxWarnings
    /\ ctx' = ctx
    /\ last' = [fn |-> fn, args |-> args, res |-> res, policy |-> FALSE, pre |-> ctx]

DateFormat ==
    \E t \in OptDates, layout \in OptLayouts :
        Call("date_format", <<t, layout>>, date_format(ctx, t, layout))

WeekDay == \E t \in OptDates : Call("week_day", <<t>>, week_day(ctx, t))

DayOfYear == \E t \in OptDates : Call("day_of_year", <<t>>, day_of_year(ctx, t))

FromDays == \E x \in OptInts : Call("from_days", <<x>>, from_days(ctx, x))

Month == \E t \in OptDates : PureCall("month", <<t>>, month(t))

Hour == \E d \in OptDurations : PureCall("hour", <<d>>, hour(d))

Minute == \E d \in OptDurations : PureCall("minute", <<d>>, minute(d))

Second == \E d \in OptDurations : PureCall("second", <<d>>, second(d))

MicroSecond == \E d \in OptDurations : PureCall("micro_second", <<d>>, micro_second(d))

Year == \E t \in OptDates : Call("year", <<t>>, year(ctx, t))

DayOfMonth == \E t \in OptDates : Call("day_of_month", <<t>>, day_of_month(ctx, t))

MonthName == \E t \in OptDates : Call("month_name", <<t>>, month_name(ctx, t))

Next ==
    \/ DateFormat
    \/ WeekDay
    \/ DayOfYear
    \/ FromDays
    \/ Month
    \/ Hour
    \/ Minute
    \/ Second
    \/ MicroSecond
    \/ Year
    \/ DayOfMonth
    \/ MonthName

Spec == Init /\ [][Next]_vars

\* ------------------------------------------------------- reading the state
\* The functions that capture the EvalContext.
CtxAware ==
    {"date_format", "week_day", "day_of_year", "from_days", "year",
     "day_of_month", "month_name"}

\* Those of them that take a DateTime.
ExtractionFns == CtxAware \ {"from_days"}

CtxFree == {"month", "hour", "minute", "second", "micro_second"}

Called == last.fn # "none"

AnyArgAbsent == \E i \in 1..Len(last.args) : last.args[i] = None

NoArgAbsent == \A i \in 1..Len(last.args) : last.args[i] # None

\* The first argument of the last call, when it is present.
Arg1 == last.args[1][1]

Strict == IsStrict(last.pre)

NoZeroDate == "NO_ZERO_DATE" \in last.pre.cfg.sql_mode

\* The last call left the warning sequence as it found it.
NoWarning == ctx.warnings = last.pre.warnings

\* The last call appended one warning, for the value t, and kept the rest.
OneWarning(t) ==
    ctx.warnings = Append(last.pre.warnings, incorrect_datetime_value(t))

IsUnknown == last.res.ok /\ last.res.val = None

IsInt(n) == last.res.ok /\ last.res.val = Some(IntVal(n))

IsFailure == ~last.res.ok

\* ------------------------------------------------------------------- claims

\* C1: null propagation. After a call of any function of the set with an
\* absent argument, in any SQL mode and with any statement flags, the result
\* is Ok(None), handle_invalid_time_error was not called, and the warning
\* sequence is what it was before the call. For date_format this covers an
\* absent date with any layout and an absent layout with any date.
C1_NullPropagation ==
    (Called /\ AnyArgAbsent) =>
        /\ IsUnknown
        /\ ~last.policy
        /\ NoWarning

\* date_format of the all-zero date with an absent layout, under
\* NO_ZERO_DATE and strict handling.
C1_Witness ==
    /\ last.fn = "date_format"
    /\ last.args[1] = Some(ZeroDate)
    /\ last.args[2] = None
    /\ Strict
    /\ NoZeroDate
    /\ IsUnknown

\* C2: strict-mode escalation. Whenever a context-aware function called the
\* Error Policy in a context whose mode and flags make it strict, the call
\* ended in a hard failure and the warning sequence is unchanged; month_name
\* of the all-zero date under NO_ZERO_DATE and strict handling is such a
\* call; and a context-aware call changes the warnings only when the context
\* is not strict. from_days, which also captures the context, is among
\* them: it never calls the policy and never changes the warnings.
C2_StrictEscalation ==
    (last.fn \in CtxAware) =>
        /\ (last.policy /\ Strict) => (IsFailure /\ NoWarning)
        /\ (last.fn = "month_name" /\ last.args[1] = Some(ZeroDate)
              /\ NoZeroDate /\ Strict)
             => (last.policy /\ IsFailure /\ NoWarning)
        /\ (~NoWarning) => ~Strict

\* month_name of the all-zero date under NO_ZERO_DATE and strict handling
\* has failed.
C2_Witness ==
    /\ last.fn = "month_name"
    /\ last.args[1] = Some(ZeroDate)
    /\ NoZeroDate
    /\ Strict
    /\ IsFailure

\* The result of the last call is "unknown" or the integer 0.
UnknownOrZero ==
    /\ last.res.ok
    /\ \/ last.res.val = None
       \/ last.res.val = Some(IntVal(0))

\* C3 as stated: for every context-aware extraction function (date_format,
\* week_day, day_of_year, year, day_of_month, month_name) and every invalid
\* date,
\* a lenient context gives "unknown" or 0 plus one appended warning, and a
\* strict context gives a hard failure.
C3_AsStated ==
    (last.fn \in ExtractionFns /\ NoArgAbsent /\ invalid_zero(Arg1)) =>
        IF Strict THEN IsFailure
        ELSE UnknownOrZero /\ Len(ctx.warnings) = Len(last.pre.warnings) + 1

\* The last call is one the code routes through the Error Policy:
\* date_format, week_day, day_of_year on an invalid_zero date; year,
\* day_of_month, month_name on the all-zero date under NO_ZERO_DATE.
RoutedCase ==
    \/ last.fn \in {"date_format", "week_day", "day_of_year"} /\ invalid_zero(Arg1)
    \/ last.fn \in {"year", "day_of_month", "month_name"}
         /\ is_zero(Arg1) /\ NoZeroDate

\* C3 amended: in a routed case a lenient context gives "unknown" plus one
\* appended warning for the date and a strict context gives a hard failure
\* with no warning; on every other invalid date year, day_of_month and
\* month_name succeed in every mode, without warning and without the policy.
C3_InvalidDates ==
    (last.fn \in ExtractionFns /\ NoArgAbsent /\ invalid_zero(Arg1)) =>
        IF RoutedCase
        THEN /\ last.policy
             /\ IF Strict THEN IsFailure /\ NoWarning
                ELSE IsUnknown /\ OneWarning(Arg1)
        ELSE last.res.ok /\ NoWarning /\ ~last.policy

\* week_day of the partially-zero date 2018-12-00 in a lenient context has
\* given "unknown" and queued its warning.
C3_Witness ==
    /\ last.fn = "week_day"
    /\ last.args[1] = Some(Date(2018, 12, 0))
    /\ ~Strict
    /\ IsUnknown
    /\ OneWarning(Date(2018, 12, 0))

\* C4: year of the all-zero date is 0, without policy or warning, when
\* NO_ZERO_DATE is not set; it is "unknown" with exactly one appended warning
\* when NO_ZERO_DATE is set and the policy is not strict; year of any other
\* date is the date's year field, with no warning, in every mode.
C4_YearZeroDate ==
    (last.fn = "year" /\ NoArgAbsent) =>
        /\ (is_zero(Arg1) /\ ~NoZeroDate) => (IsInt(0) /\ ~last.policy /\ NoWarning)
        /\ (is_zero(Arg1) /\ NoZeroDate /\ ~Strict) =>
              (IsUnknown /\ last.policy /\ OneWarning(Arg1))
        /\ (~is_zero(Arg1)) => (IsInt(Arg1.year) /\ ~last.policy /\ NoWarning)

\* year of the all-zero date under NO_ZERO_DATE, lenient, has given
\* "unknown" and appended a warning.
C4_Witness ==
    /\ last.fn = "year"
    /\ last.args[1] = Some(ZeroDate)
    /\ NoZeroDate
    /\ ~Strict
    /\ IsUnknown
    /\ Len(ctx.warnings) = Len(last.pre.warnings) + 1

\* C5: for a valid date week_day is the Monday-based index in 0..6
\* (2018-12-03 is 0, 2018-12-06 is 3, 2018-12-09 is 6) and day_of_year the
\* 1-based ordinal in 1..366 (2016-12-31 is 366, 2018-12-31 is 365), with no
\* warning; for an invalid_zero date in a lenient context both give "unknown"
\* through the policy with exactly one appended warning, whether or not
\* NO_ZERO_DATE is set.
C5_WeekDayDayOfYear ==
    (last.fn \in {"week_day", "day_of_year"} /\ NoArgAbsent) =>
        /\ (~invalid_zero(Arg1)) =>
              /\ last.res.ok /\ last.res.val # None
              /\ ~last.policy
              /\ NoWarning
              /\ last.fn = "week_day" => last.res.val[1].int \in 0..6
              /\ last.fn = "day_of_year" => last.res.val[1].int \in 1..366
        /\ (last.fn = "week_day" /\ Arg1 = Date(2018, 12, 3)) => IsInt(0)
        /\ (last.fn = "week_day" /\ Arg1 = Date(2018, 12, 6)) => IsInt(3)
        /\ (last.fn = "week_day" /\ Arg1 = Date(2018, 12, 9)) => IsInt(6)
        /\ (last.fn = "week_day" /\ Arg1 = Date(2012, 12, 21)) => IsInt(4)
        /\ (last.fn = "day_of_year" /\ Arg1 = Date(2016, 12, 31)) => IsInt(366)
        /\ (last.fn = "day_of_year" /\ Arg1 = Date(2018, 12, 31)) => IsInt(365)
        /\ (last.fn = "day_of_year" /\ Arg1 = Date(2012, 12, 21)) => IsInt(356)
        /\ (invalid_zero(Arg1) /\ ~Strict) =>
              (IsUnknown /\ last.policy /\ OneWarning(Arg1))

\* day_of_year of the partially-zero date 2018-00-03 in a lenient context
\* without NO_ZERO_DATE has given "unknown" and one warning.
C5_Witness ==
    /\ last.fn = "day_of_year"
    /\ last.args[1] = Some(Date(2018, 0, 3))
    /\ ~NoZeroDate
    /\ ~Strict
    /\ IsUnknown
    /\ OneWarning(Date(2018, 0, 3))

\* C6: month_name calls the Error Policy exactly when the date is all-zero
\* and NO_ZERO_DATE is set, and its lenient path then gives "unknown" with
\* one appended warning. Otherwise no warning is appended and the result is
\* decided by the month field alone: the English name of months 1..12 (also
\* with day 0: 2019-12-00 gives December) and "unknown" for month 0
\* (2019-00-01, or the all-zero date without NO_ZERO_DATE).
C6_MonthName ==
    (last.fn = "month_name" /\ NoArgAbsent) =>
        /\ last.policy <=> (is_zero(Arg1) /\ NoZeroDate)
        /\ (last.policy /\ ~Strict) => (IsUnknown /\ OneWarning(Arg1))
        /\ (~last.policy) =>
              /\ NoWarning
              /\ last.res.ok
              /\ IF Arg1.month \in 1..12
                 THEN last.res.val = Some(into_bytes(<<MonthNames[Arg1.month]>>))
                 ELSE last.res.val = None
        /\ (Arg1 = Date(2019, 12, 0)) => last.res = Ok(Some(into_bytes(<<"December">>)))
        /\ (Arg1 = Date(2019, 1, 1)) => last.res = Ok(Some(into_bytes(<<"January">>)))
        /\ (Arg1 = Date(2019, 0, 1)) => IsUnknown /\ NoWarning
        /\ (Arg1 = ZeroDate /\ ~NoZeroDate) => IsUnknown /\ NoWarning

\* month_name of 2019-12-00 under NO_ZERO_DATE has given December with no
\* warning.
C6_Witness ==
    /\ last.fn = "month_name"
    /\ last.args[1] = Some(Date(2019, 12, 0))
    /\ NoZeroDate
    /\ last.res = Ok(Some(into_bytes(<<"December">>)))
    /\ NoWarning

\* The i64 x is below the ordinal n (0 <= n < 2^31).
I64Less(x, n) ==
    \/ x.hi < 0
    \/ x.hi = 0 /\ x.mid <= n \div Pow16 /\ x.mid * Pow16 + x.lo < n

\* The i64 x is the ordinal n (0 <= n < 2^31).
I64Is(x, n) == x = I64Of(0, n)

\* C7: from_days never fails and never warns on a non-null input, gives the
\* zero date for every i64 ordinal that is < 366 or >= 3,652,425, gives
\* 2012-05-12 for 735000 and 9999-12-31 for 3652424.
C7_FromDaysRange ==
    (last.fn = "from_days" /\ NoArgAbsent) =>
        /\ last.res.ok
        /\ NoWarning
        /\ (I64Less(Arg1, MinDayNr) \/ ~I64Less(Arg1, MaxDayNr))
              => last.res = Ok(Some(ZeroDate))
        /\ I64Is(Arg1, 735000) => last.res = Ok(Some(Date(2012, 5, 12)))
        /\ I64Is(Arg1, 3652424) => last.res = Ok(Some(Date(9999, 12, 31)))

\* The layout of the last date_format call is present and does not decode.
UndecodableLayout == last.args[2] # None /\ ~last.args[2][1].utf8

\* C8 as stated: date_format with a non-null date of any kind and an
\* undecodable layout ends in a hard failure with no warning appended.
C8_AsStated ==
    (last.fn = "date_format" /\ last.args[1] # None /\ UndecodableLayout) =>
        (IsFailure /\ NoWarning)

\* C8 amended: with a date that is not invalid_zero, an undecodable layout
\* ends date_format in the decoding failure in every SQL mode, without the
\* Error Policy and without a warning; with an invalid_zero date the Error
\* Policy decides before the layout is decoded (strict: hard failure for the
\* date; lenient: "unknown" with one warning for the date).
C8_MalformedLayout ==
    (last.fn = "date_format" /\ last.args[1] # None /\ UndecodableLayout) =>
        IF invalid_zero(Arg1)
        THEN /\ last.policy
             /\ IF Strict
                THEN last.res = Err(incorrect_datetime_value(Arg1)) /\ NoWarning
                ELSE IsUnknown /\ OneWarning(Arg1)
        ELSE /\ last.res = Err(EncodingError)
             /\ ~last.policy
             /\ NoWarning

\* date_format of a valid date with an undecodable layout in a lenient
\* context has failed with the decoding error.
C8_Witness ==
    /\ last.fn = "date_format"
    /\ last.args[1] = Some(Date(2012, 12, 21))
    /\ UndecodableLayout
    /\ ~Strict
    /\ last.res = Err(EncodingError)

\* C9 as stated: on the all-zero date year and day_of_month call the Error
\* Policy when NO_ZERO_DATE is set and return the integer 0 on its warning
\* path; without NO_ZERO_DATE they return 0 with no warning.
C9_AsStated ==
    (last.fn \in {"year", "day_of_month"} /\ NoArgAbsent /\ is_zero(Arg1)) =>
        IF NoZeroDate
        THEN last.policy /\ (~Strict => (IsInt(0) /\ OneWarning(Arg1)))
        ELSE IsInt(0) /\ ~last.policy /\ NoWarning

\* C9 amended: on the all-zero date year and day_of_month branch alike: with
\* NO_ZERO_DATE they call the Error Policy and return "unknown" on its
\* warning path after the warning is recorded (a hard failure on its strict
\* path); without NO_ZERO_DATE they return 0 directly with no warning.
C9_ZeroDateBranching ==
    (last.fn \in {"year", "day_of_month"} /\ NoArgAbsent /\ is_zero(Arg1)) =>
        IF NoZeroDate
        THEN /\ last.policy
             /\ IF Strict THEN IsFailure /\ NoWarning
                ELSE IsUnknown /\ OneWarning(Arg1)
        ELSE IsInt(0) /\ ~last.policy /\ NoWarning

\* day_of_month of the all-zero date under NO_ZERO_DATE, lenient, has given
\* "unknown" after recording the warning.
C9_Witness ==
    /\ last.fn = "day_of_month"
    /\ last.args[1] = Some(ZeroDate)
    /\ NoZeroDate
    /\ ~Strict
    /\ IsUnknown
    /\ OneWarning(ZeroDate)

\* C10: month, hour, minute, second and micro_second never fail, never call
\* the Error Policy and leave the whole context (warnings and SQL mode) as
\* it was, in every mode; their result is the argument's field and nothing
\* else, so equal inputs give equal results whatever the context holds; and
\* month of a date with month 0, the all-zero date included, is 0.
C10_ContextFree ==
    (last.fn \in CtxFree /\ NoArgAbsent) =>
        /\ last.res.ok
        /\ ~last.policy
        /\ ctx = last.pre
        /\ last.fn = "month" => IsInt(Arg1.month)
        /\ (last.fn = "month" /\ Arg1.month = 0) => IsInt(0)
        /\ last.fn = "hour" => IsInt(Arg1.hours)
        /\ last.fn = "minute" => IsInt(Arg1.minutes)
        /\ last.fn = "second" => IsInt(Arg1.secs)
        /\ last.fn = "micro_second" => IsInt(Arg1.micros)

\* month of the all-zero date under NO_ZERO_DATE and strict handling has
\* given 0.
C10_Witness ==
    /\ last.fn = "month"
    /\ last.args[1] = Some(ZeroDate)
    /\ NoZeroDate
    /\ Strict
    /\ IsInt(0)

\* The last call is one of the seven functions that capture the context,
\* and if it is date_format its layout, when present, decodes.
DecodableCall ==
    /\ last.fn \in CtxAware
    /\ last.fn = "date_format" =>
          (last.args[2] = None \/ last.args[2][1].utf8)

\* C11: an invalid calendar value becomes a hard failure only through the
\* Error Policy's strict classification. A call of week_day, day_of_year,
\* year, day_of_month, month_name or date_format (decodable layout) that
\* ended in a hard failure called the policy, in a context whose SQL mode
\* and statement flags are strict, and the failure carries the invalid
\* value; every call that called the policy failed exactly when the context
\* is strict, whichever function it was; from_days, which is handed the
\* context too, never ends in a hard failure; and two successive policy
\* calls on the same context end in the same outcome class.
C11_SinglePolicy ==
    /\ [](DecodableCall =>
            /\ IsFailure =>
                  /\ last.policy
                  /\ Strict
                  /\ NoArgAbsent
                  /\ last.res = Err(incorrect_datetime_value(Arg1))
            /\ last.policy => (IsFailure <=> Strict)
            /\ last.policy => (IsFailure <=> IsStrict(ctx)))
    /\ [][(last.policy /\ last'.policy) =>
             ((~last.res.ok) <=> (~last'.res.ok))]_vars

\* day_of_year of the partially-zero date 2019-00-01 in a strict context
\* whose SQL mode lacks NO_ZERO_DATE has ended in a hard failure.
C11_Witness ==
    /\ last.fn = "day_of_year"
    /\ last.args[1] = Some(Date(2019, 0, 1))
    /\ Strict
    /\ ~NoZeroDate
    /\ last.policy
    /\ IsFailure

\* The sequence w extends the sequence v by exactly one element.
ExtendsByOne(w, v) ==
    /\ Len(w) = Len(v) + 1
    /\ SubSeq(w, 1, Len(v)) = v

\* C12: every step of a run of invocations on one EvalContext leaves the SQL
\* mode and the statement flags as they were, keeps every recorded warning
\* in place and in order, appends at most one warning, and appends none when
\* the invocation returned a value other than "unknown" or a hard failure.
C12_AppendOnly ==
    [][/\ ctx'.cfg = ctx.cfg
       /\ \/ ctx'.warnings = ctx.warnings
          \/ ExtendsByOne(ctx'.warnings, ctx.warnings)
       /\ (~last'.res.ok \/ last'.res.val # None) =>
              ctx'.warnings = ctx.warnings]_vars

\* A context that has taken two invocations' warnings, for different values,
\* the second appended behind the first by the last call.
C12_Witness ==
    /\ Len(ctx.warnings) = 2
    /\ ctx.warnings[1] # ctx.warnings[2]
    /\ ExtendsByOne(ctx.warnings, last.pre.warnings)
    /\ last.policy
    /\ IsUnknown
    /\ ctx.cfg = last.pre.cfg

====
